---- MODULE Spec2Model ----
(***************************************************************************)
(* A model of the two TopoToLake script tools:                             *)
(*   tools/IsoClass.py            Stage 1, the classifier                  *)
(*   tools/CreateLakePolygons.py  Stage 2, the polygonizer                 *)
(*                                                                         *)
(* Strings are TLA+ strings read as sequences of characters: Len, \o and   *)
(* SubSeq act on them, so split, join, rsplit, strip, int() and the        *)
(* four-digit match are computed character by character, as Python does.   *)
(*                                                                         *)
(* Three specifications share the module:                                  *)
(*   Spec       the pipeline: Stage 1 runs, the operator's edits of the    *)
(*              tracking table, Stage 2 runs;                              *)
(*   SpecNames  the two name functions applied to bounded sets of names;   *)
(*   SpecRemap  the binary remap of Stage 2 built from bounded inputs.     *)
(***************************************************************************)
EXTENDS Integers, Sequences, FiniteSets, TLC

VARIABLES
    \* ---- the pipeline (Spec) ----
    pc,            \* where the operator's session is: "idle", "stage1", "s1done",
                   \* "s1failed", "stage2", "s2done", "s2failed"
    csv,           \* classified_rasters.csv: NoFile, or its lines (header first)
    csv_before,    \* history: csv as the current Stage 1 run found it
    class_gdb,     \* output_gdb of Stage 1: the names of the classified rasters
    rasters,       \* Stage 1: arcpy.ListRasters() of this run
    num_classes,   \* Stage 1: parameter 2 of this run
    idx,           \* both stages: the loop's position (1-based)
    reader,        \* Stage 2: list(csv.DictReader(csvfile))
    skipped,       \* Stage 2: indices of the records warned about and skipped
    processed,     \* Stage 2: indices of the records whose layer was saved
    failed,        \* both stages: indices of the items whose processing raised
    warnings,      \* Stage 2: the raster names arcpy.AddWarning reported
    lake_gdb,      \* output_gdb of Stage 2: feature layers, each with the record
                   \* that wrote it
    \* ---- the name functions (SpecNames) ----
    name_in,       \* the raster name a function is applied to
    name_fn,       \* "none", "extract_location_year" or "raster_to_lake_name"
    name_out,      \* the outcome: [raised, value]
    \* ---- the remap (SpecRemap) ----
    cursor,        \* the rows of the SearchCursor over "Value"
    water_class,   \* the integer water class of the record
    remap_pc,      \* "input" or "built"
    remap          \* the list handed to RemapValue

pipeVars  == <<pc, csv, csv_before, class_gdb, rasters, num_classes, idx,
               reader, skipped, processed, failed, warnings, lake_gdb>>
nameVars  == <<name_in, name_fn, name_out>>
remapVars == <<cursor, water_class, remap_pc, remap>>
vars      == <<pipeVars, nameVars, remapVars>>

----------------------------------------------------------------------------
(* Bounds of the model.                                                    *)

MaxSegs == 4        \* segments of a raster name in SpecNames
MaxRasters == 2     \* rasters listed in the input geodatabase per Stage 1 run
MaxTable == 2       \* data rows of the tracking table (Stage 1 is not started
                    \* when its run would write more)
MaxCursor == 3      \* rows the SearchCursor returns in SpecRemap
MaxValue == 3       \* class values are 1..MaxValue in SpecRemap

----------------------------------------------------------------------------
(* Python's string and list primitives.                                    *)

Ch(s, i) == SubSeq(s, i, i)

Min(a, b) == IF a <= b THEN a ELSE b
Max(a, b) == IF a >= b THEN a ELSE b

\* the outcome of a call: a returned value or a raised exception
Ret(v)   == [raised |-> FALSE, value |-> v]
Raise(e) == [raised |-> TRUE, value |-> e]

\* positions of the separator character sep in s
SepAt(s, sep) == {i \in 1..Len(s) : Ch(s, i) = sep}

SetMin(S) == CHOOSE x \in S : \A y \in S : x <= y
SetMax(S) == CHOOSE x \in S : \A y \in S : x >= y

\* str.split(sep): "" gives [""], "a_" gives ["a", ""]
RECURSIVE SplitOn(_, _)
SplitOn(s, sep) ==
    IF SepAt(s, sep) = {} THEN <<s>>
    ELSE LET k == SetMin(SepAt(s, sep))
         IN  <<SubSeq(s, 1, k - 1)>> \o SplitOn(SubSeq(s, k + 1, Len(s)), sep)

Split(s) == SplitOn(s, "_")

\* sep.join(parts): [] gives ""
RECURSIVE JoinWith(_, _)
JoinWith(parts, sep) ==
    IF parts = <<>> THEN ""
    ELSE IF Len(parts) = 1 THEN parts[1]
    ELSE parts[1] \o sep \o JoinWith(Tail(parts), sep)

Join(parts) == JoinWith(parts, "_")

\* (mutant of RSplit1, for C8) the split at the first separator, as
\* str.split("_", 1) does
SplitFirst1(s) ==
    IF SepAt(s, "_") = {} THEN <<s>>
    ELSE LET k == SetMin(SepAt(s, "_"))
         IN  <<SubSeq(s, 1, k - 1), SubSeq(s, k + 1, Len(s))>>

\* str.rsplit("_", 1): at most one split, at the last separator
RSplit1(s) ==
    IF SepAt(s, "_") = {} THEN <<s>>
    ELSE LET k == SetMax(SepAt(s, "_"))
         IN  <<SubSeq(s, 1, k - 1), SubSeq(s, k + 1, Len(s))>>

DigitSeq == <<"0", "1", "2", "3", "4", "5", "6", "7", "8", "9">>
Digits == {DigitSeq[i] : i \in 1..10}

\* re.fullmatch(r"\d{4}", p)
FullMatchYear(p) == Len(p) = 4 /\ \A i \in 1..4 : Ch(p, i) \in Digits

\* list.index(x): the first position of x, 0 standing for ValueError
ListIndex(parts, x) ==
    IF \E i \in 1..Len(parts) : parts[i] = x
    THEN SetMin({i \in 1..Len(parts) : parts[i] = x})
    ELSE 0

\* parts[:stop] for a 0-based stop, which Python counts from the end when it
\* is negative
SliceTo(parts, stop) ==
    IF stop >= 0 THEN SubSeq(parts, 1, Min(stop, Len(parts)))
    ELSE SubSeq(parts, 1, Max(Len(parts) + stop, 0))

----------------------------------------------------------------------------
(* IsoClass.py: extract_location_year.                                     *)

\* next((p for p in parts if re.fullmatch(r"\d{4}", p)), "unknown")
NextYear(parts) ==
    LET hits == {i \in 1..Len(parts) : FullMatchYear(parts[i])}
    IN  IF hits = {} THEN "unknown" ELSE parts[SetMin(hits)]

\* (mutant of TryLocation, for C6) parts[:year_index], the map code kept
TryLocationKeepSheet(parts, year) ==
    IF ListIndex(parts, year) = 0 THEN Raise("ValueError")
    ELSE Ret(Join(SliceTo(parts, ListIndex(parts, year) - 1)))

\* the body of the try block: parts.index(year) is 0-based in Python, so
\* year_index = ListIndex - 1
TryLocation(parts, year) ==
    IF ListIndex(parts, year) = 0 THEN Raise("ValueError")
    ELSE Ret(Join(SliceTo(parts, (ListIndex(parts, year) - 1) - 1)))

\* (mutant of Location, for C7) the try block without its except clause
LocationNoExcept(parts, year) == TryLocation(parts, year)

\* try: ... except: location = "UnknownLoc"
Location(parts, year) ==
    IF TryLocation(parts, year).raised THEN Ret("UnknownLoc")
    ELSE TryLocation(parts, year)

extract_location_year(raster_name) ==
    LET parts == Split(raster_name)
        year == NextYear(parts)
        location == Location(parts, year)
    IN  IF location.raised THEN location
        ELSE Ret(location.value \o "_" \o year)

----------------------------------------------------------------------------
(* CreateLakePolygons.py: raster_to_lake_name.                             *)

raster_to_lake_name(raster_name) ==
    LET base == RSplit1(raster_name)[1]
    IN  Ret(base \o "_Lakes")

----------------------------------------------------------------------------
(* SpecNames: the name functions on bounded sets of names.                 *)

Tokens == {"Sitka", "A12", "1950", "1975", "19501", "unknown", "", "topo", "Lakes"}

RECURSIVE SeqsUpTo(_, _)
SeqsUpTo(S, n) ==
    IF n = 0 THEN {<<>>}
    ELSE LET shorter == SeqsUpTo(S, n - 1)
         IN  shorter \cup {Append(q, x) : q \in {r \in shorter : Len(r) = n - 1}, x \in S}

Names == {Join(q) : q \in SeqsUpTo(Tokens, MaxSegs) \ {<<>>}}

NoOutcome == Ret("")

NamesInit ==
    /\ name_in \in Names
    /\ name_fn = "none"
    /\ name_out = NoOutcome

NamesIdle ==
    /\ name_in = ""
    /\ name_fn = "none"
    /\ name_out = NoOutcome

ApplyExtract ==
    /\ name_fn = "none"
    /\ name_fn' = "extract_location_year"
    /\ name_out' = extract_location_year(name_in)
    /\ UNCHANGED <<name_in, pipeVars, remapVars>>

ApplyLakeName ==
    /\ name_fn = "none"
    /\ name_fn' = "raster_to_lake_name"
    /\ name_out' = raster_to_lake_name(name_in)
    /\ UNCHANGED <<name_in, pipeVars, remapVars>>

NamesNext == ApplyExtract \/ ApplyLakeName

----------------------------------------------------------------------------
(* CreateLakePolygons.py: the binary remap (step 1 of the loop body).      *)

\* class_values = set(); for row in cursor: class_values.add(row[0])
ClassValues(rows) == {rows[i] : i \in 1..Len(rows)}

\* the orders in which Python may iterate over the set S
Orders(S) ==
    {q \in [1..Cardinality(S) -> S] : {q[i] : i \in 1..Cardinality(S)} = S}

\* (mutant of NonWater, for C10) the list without its filter
NonWaterUnfiltered(order, wc) == order

\* non_water = [val for val in class_values if val != water_class], for the
\* iteration order `order` of class_values
NonWater(order, wc) == SelectSeq(order, LAMBDA val : val # wc)

\* remap = [[water_class, 1]] + [[val, 0] for val in non_water]
BuildRemap(order, wc) ==
    <<<<wc, 1>>>> \o [i \in 1..Len(NonWater(order, wc)) |-> <<NonWater(order, wc)[i], 0>>]

Cursors == SeqsUpTo(1..MaxValue, MaxCursor)

RemapInit ==
    /\ cursor \in Cursors
    /\ water_class \in 0..(MaxValue + 1)
    /\ remap_pc = "input"
    /\ remap = <<>>

RemapIdle ==
    /\ cursor = <<>>
    /\ water_class = 0
    /\ remap_pc = "input"
    /\ remap = <<>>

Reclassify ==
    /\ remap_pc = "input"
    /\ \E order \in Orders(ClassValues(cursor)) :
           remap' = BuildRemap(order, water_class)
    /\ remap_pc' = "built"
    /\ UNCHANGED <<cursor, water_class, pipeVars, nameVars>>

RemapNext == Reclassify

----------------------------------------------------------------------------
(* More of Python: str(int), str.strip(), int(str).                        *)

\* str(n) for n >= 0
RECURSIVE Str(_)
Str(n) == IF n < 10 THEN DigitSeq[n + 1] ELSE Str(n \div 10) \o DigitSeq[(n % 10) + 1]

Whitespace == {" ", "\t"}

\* str.strip(): leading and trailing whitespace removed
RECURSIVE LStrip(_)
LStrip(s) == IF Len(s) > 0 /\ Ch(s, 1) \in Whitespace THEN LStrip(Tail(s)) ELSE s

RECURSIVE RStrip(_)
RStrip(s) ==
    IF Len(s) > 0 /\ Ch(s, Len(s)) \in Whitespace
    THEN RStrip(SubSeq(s, 1, Len(s) - 1)) ELSE s

Strip(s) == RStrip(LStrip(s))

RECURSIVE DigitsValue(_)
DigitsValue(s) ==
    IF Len(s) = 0 THEN 0
    ELSE 10 * DigitsValue(SubSeq(s, 1, Len(s) - 1)) + (ListIndex(DigitSeq, Ch(s, Len(s))) - 1)

\* int(s) for the unsigned decimal strings of the model: surrounding whitespace
\* is ignored, anything else that is not a digit raises ValueError
PyInt(s) ==
    LET t == Strip(s)
    IN  IF Len(t) > 0 /\ \A i \in 1..Len(t) : Ch(t, i) \in Digits
        THEN Ret(DigitsValue(t))
        ELSE Raise("ValueError")

----------------------------------------------------------------------------
(* The tracking table file and the csv module.                             *)

NoFile == [exists |-> FALSE, lines |-> <<>>]
File(lines) == [exists |-> TRUE, lines |-> lines]

\* csv.writer(f).writerow(fields): the fields of the model hold no comma, quote
\* or line break, so none is quoted
WriteRow(fields) == JoinWith(fields, ",")

Header == WriteRow(<<"classified_raster", "water_class">>)

\* (mutant of CreateCsv, for C2) open(csv_path, "w") without the existence test
CreateCsvTruncate(file) == File(<<Header>>)

\* IsoClass.py 69-72: the file is written, with the header, when it is absent
CreateCsv(file) == IF ~file.exists THEN File(<<Header>>) ELSE file

\* IsoClass.py 100-102: open(csv_path, "a") and one writerow
AppendRow(file, iso_output_name) ==
    File(Append(file.lines, WriteRow(<<iso_output_name, "">>)))

\* csv.DictReader: the first line names the fields, every other line is a
\* record (every line of the model has as many fields as the header)
DictRow(fieldnames, fields) ==
    [classified_raster |-> fields[ListIndex(fieldnames, "classified_raster")],
     water_class       |-> fields[ListIndex(fieldnames, "water_class")]]

DictReader(lines) ==
    IF lines = <<>> THEN <<>>
    ELSE [i \in 1..(Len(lines) - 1) |->
             DictRow(SplitOn(lines[1], ","), SplitOn(lines[i + 1], ","))]

\* the data rows of the file, as the operator sees them
Table(file) == DictReader(file.lines)

----------------------------------------------------------------------------
(* Stage 1: IsoClass.py.                                                   *)

RasterNames == {"Sitka_A12_1950_topo", "Sitka_B07_1950", "map"}
NumClasses == {6, 8}

\* arcpy.ListRasters(): the rasters of a geodatabase have distinct names
RasterLists ==
    {q \in SeqsUpTo(RasterNames, MaxRasters) :
        \A i, j \in 1..Len(q) : i # j => q[i] # q[j]}

\* f"{short_name}_{num_classes}class"
IsoOutputName(raster, n) ==
    extract_location_year(raster).value \o "_" \o Str(n) \o "class"

Running == pc \in {"stage1", "stage2"}

\* lines 67-76: the table is created when absent, the rasters are listed
Stage1Start ==
    /\ ~Running
    /\ \E rs \in RasterLists, n \in NumClasses :
        /\ Max(Len(csv.lines) - 1, 0) + Len(rs) <= MaxTable
        /\ rasters' = rs
        /\ num_classes' = n
    /\ csv_before' = csv
    /\ csv' = CreateCsv(csv)
    /\ pc' = "stage1"
    /\ idx' = 1
    /\ failed' = {}
    /\ reader' = <<>>
    /\ skipped' = {}
    /\ processed' = {}
    /\ warnings' = <<>>
    /\ lake_gdb' = {}
    /\ UNCHANGED <<class_gdb, nameVars, remapVars>>

\* lines 79-104, one iteration that the backend carries out
Stage1Iterate ==
    /\ pc = "stage1"
    /\ idx <= Len(rasters)
    /\ ~extract_location_year(rasters[idx]).raised
    /\ class_gdb' = class_gdb \cup {IsoOutputName(rasters[idx], num_classes)}
    /\ csv' = AppendRow(csv, IsoOutputName(rasters[idx], num_classes))
    /\ idx' = idx + 1
    /\ UNCHANGED <<pc, csv_before, rasters, num_classes, reader, skipped, processed,
                   failed, warnings, lake_gdb, nameVars, remapVars>>

\* lines 79-97, one iteration in which extract_location_year, Resample,
\* IsoClusterUnsupervisedClassification or save raises: nothing catches it and
\* the script ends
Stage1Raise ==
    /\ pc = "stage1"
    /\ idx <= Len(rasters)
    /\ failed' = failed \cup {idx}
    /\ pc' = "s1failed"
    /\ UNCHANGED <<csv, csv_before, class_gdb, rasters, num_classes, idx, reader,
                   skipped, processed, warnings, lake_gdb, nameVars, remapVars>>

\* the for loop is exhausted and the script ends
Stage1Exit ==
    /\ pc = "stage1"
    /\ idx > Len(rasters)
    /\ pc' = "s1done"
    /\ UNCHANGED <<csv, csv_before, class_gdb, rasters, num_classes, idx, reader,
                   skipped, processed, failed, warnings, lake_gdb, nameVars, remapVars>>

----------------------------------------------------------------------------
(* The operator, between the stages: header lines 14-17 of IsoClass.py.    *)

WaterEntries == {"", " ", "2", "x"}

\* line i of the file with its water_class field set to w
SetWaterClass(lines, i, w) ==
    [lines EXCEPT ![i] = WriteRow(<<SplitOn(lines[i], ",")[1], w>>)]

\* the scripts are not running while the operator edits: their variables are
\* gone, and are set here to what Init gives them
OperatorEdit ==
    /\ ~Running
    /\ csv.exists
    /\ \E i \in 2..Len(csv.lines), w \in WaterEntries :
        /\ SplitOn(csv.lines[i], ",")[2] # w
        /\ csv' = File(SetWaterClass(csv.lines, i, w))
    /\ pc' = "idle"
    /\ csv_before' = NoFile
    /\ rasters' = <<>>
    /\ num_classes' = 6
    /\ idx' = 1
    /\ reader' = <<>>
    /\ skipped' = {}
    /\ processed' = {}
    /\ failed' = {}
    /\ warnings' = <<>>
    /\ lake_gdb' = {}
    /\ UNCHANGED <<class_gdb, nameVars, remapVars>>

----------------------------------------------------------------------------
(* Stage 2: CreateLakePolygons.py.                                         *)

Letters ==
    {"a", "b", "c", "d", "e", "f", "g", "h", "i", "j", "k", "l", "m", "n", "o", "p",
     "q", "r", "s", "t", "u", "v", "w", "x", "y", "z", "A", "B", "C", "D", "E", "F",
     "G", "H", "I", "J", "K", "L", "M", "N", "O", "P", "Q", "R", "S", "T", "U", "V",
     "W", "X", "Y", "Z"}

\* arcpy.ValidateTableName: every character that is not a letter, a digit or
\* an underscore is replaced by an underscore
RECURSIVE ValidateTableName(_)
ValidateTableName(name) ==
    IF Len(name) = 0 THEN ""
    ELSE (IF Ch(name, 1) \in Letters \cup Digits \cup {"_"} THEN Ch(name, 1) ELSE "_")
         \o ValidateTableName(Tail(name))

\* (mutant of IsBlank, for C4) if not water_class
IsBlankNoStrip(wc) == wc = ""

\* line 58: if not water_class.strip()
IsBlank(wc) == Strip(wc) = ""

\* lines 108-109: the feature class the record is saved as
FinalOutput(raster_name) == ValidateTableName(raster_to_lake_name(raster_name).value)

\* line 110 under arcpy.env.overwriteOutput = True (line 30): CopyFeatures
\* replaces a feature class of the same name
CopyFeatures(gdb, name, src) ==
    {l \in gdb : l.name # name} \cup {[name |-> name, src |-> src]}

\* lines 49-51: the table is read whole; the output geodatabase of the run
\* holds no layer yet
Stage2Start ==
    /\ ~Running
    /\ csv.exists
    /\ reader' = DictReader(csv.lines)
    /\ pc' = "stage2"
    /\ idx' = 1
    /\ skipped' = {}
    /\ processed' = {}
    /\ failed' = {}
    /\ warnings' = <<>>
    /\ lake_gdb' = {}
    /\ rasters' = <<>>
    /\ num_classes' = 6
    /\ csv_before' = NoFile
    /\ UNCHANGED <<csv, class_gdb, nameVars, remapVars>>

\* lines 53-60: a record with a blank water_class is warned about and skipped
Stage2Skip ==
    /\ pc = "stage2"
    /\ idx <= Len(reader)
    /\ IsBlank(reader[idx].water_class)
    /\ warnings' = Append(warnings, reader[idx].classified_raster)
    /\ skipped' = skipped \cup {idx}
    /\ idx' = idx + 1
    /\ UNCHANGED <<pc, csv, csv_before, class_gdb, rasters, num_classes, reader,
                   processed, failed, lake_gdb, nameVars, remapVars>>

\* lines 62-112: a record the backend carries through to CopyFeatures
Stage2Process ==
    /\ pc = "stage2"
    /\ idx <= Len(reader)
    /\ ~IsBlank(reader[idx].water_class)
    /\ ~PyInt(reader[idx].water_class).raised
    /\ reader[idx].classified_raster \in class_gdb
    /\ lake_gdb' = CopyFeatures(lake_gdb, FinalOutput(reader[idx].classified_raster), idx)
    /\ processed' = processed \cup {idx}
    /\ idx' = idx + 1
    /\ UNCHANGED <<pc, csv, csv_before, class_gdb, rasters, num_classes, reader,
                   skipped, failed, warnings, nameVars, remapVars>>

\* lines 62-110: int(water_class) or a call of the backend raises: nothing
\* catches it and the script ends
Stage2Raise ==
    /\ pc = "stage2"
    /\ idx <= Len(reader)
    /\ ~IsBlank(reader[idx].water_class)
    /\ failed' = failed \cup {idx}
    /\ pc' = "s2failed"
    /\ UNCHANGED <<csv, csv_before, class_gdb, rasters, num_classes, idx, reader,
                   skipped, processed, warnings, lake_gdb, nameVars, remapVars>>

\* the for loop is exhausted and the script ends
Stage2Exit ==
    /\ pc = "stage2"
    /\ idx > Len(reader)
    /\ pc' = "s2done"
    /\ UNCHANGED <<csv, csv_before, class_gdb, rasters, num_classes, idx, reader,
                   skipped, processed, failed, warnings, lake_gdb, nameVars, remapVars>>

----------------------------------------------------------------------------
(* The specifications.                                                     *)

PipeInit ==
    /\ pc = "idle"
    /\ csv = NoFile
    /\ csv_before = NoFile
    /\ class_gdb = {}
    /\ rasters = <<>>
    /\ num_classes = 6
    /\ idx = 1
    /\ reader = <<>>
    /\ skipped = {}
    /\ processed = {}
    /\ failed = {}
    /\ warnings = <<>>
    /\ lake_gdb = {}

Init == PipeInit /\ NamesIdle /\ RemapIdle

Next ==
    \/ Stage1Start
    \/ Stage1Iterate
    \/ Stage1Raise
    \/ Stage1Exit
    \/ OperatorEdit
    \/ Stage2Start
    \/ Stage2Skip
    \/ Stage2Process
    \/ Stage2Raise
    \/ Stage2Exit

Spec == Init /\ [][Next]_vars

InitNames == PipeInit /\ NamesInit /\ RemapIdle
SpecNames == InitNames /\ [][NamesNext]_vars

InitRemap == PipeInit /\ NamesIdle /\ RemapInit
SpecRemap == InitRemap /\ [][RemapNext]_vars

----------------------------------------------------------------------------
(* The claims.                                                             *)

EndsWith(s, suffix) ==
    /\ Len(s) >= Len(suffix)
    /\ SubSeq(s, Len(s) - Len(suffix) + 1, Len(s)) = suffix

\* a field that holds nothing but whitespace
BlankField(wc) == \A k \in 1..Len(wc) : Ch(wc, k) \in Whitespace

\* the position of the first four-digit segment of parts, 0 when there is none
FirstYearAt(parts) ==
    IF \E i \in 1..Len(parts) : FullMatchYear(parts[i])
    THEN SetMin({i \in 1..Len(parts) : FullMatchYear(parts[i])})
    ELSE 0

InStage1 == pc \in {"stage1", "s1done", "s1failed"}
InStage2 == pc \in {"stage2", "s2done", "s2failed"}

\* C1 (as claimed): the tracking table never holds two rows with the same
\* classified_raster value, within one Stage 1 run or across runs.
C1_NoDuplicateRows ==
    \A i, j \in 1..Len(Table(csv)) :
        i # j => Table(csv)[i].classified_raster # Table(csv)[j].classified_raster

\* the lines a Stage 1 run found, the header counted when it had to write it
LinesBefore == IF csv_before.exists THEN csv_before.lines ELSE <<Header>>

\* the lines of the first n rasters of the run, in processing order
NewLines(n) ==
    [i \in 1..n |-> WriteRow(<<IsoOutputName(rasters[i], num_classes), "">>)]

\* C2: throughout a Stage 1 run the tracking table is what the run found (the
\* header alone when the file was absent), line for line, followed by one row
\* per raster processed so far, in processing order, each with the derived
\* name and an empty water_class; a run that completes has added exactly one
\* row per input raster.
C2_AppendOnly ==
    InStage1 =>
        /\ csv.exists
        /\ csv.lines = LinesBefore \o NewLines(idx - 1)
        /\ \A i \in 1..(idx - 1) :
               Table(csv)[Len(LinesBefore) - 1 + i] =
                   [classified_raster |-> IsoOutputName(rasters[i], num_classes),
                    water_class |-> ""]
        /\ pc = "s1done" => idx - 1 = Len(rasters)

\* C2 witness: a completed run over a raster, on a table that existed and held
\* a water_class the operator had filled in.
C2_Witness ==
    /\ pc = "s1done"
    /\ Len(rasters) >= 1
    /\ csv_before.exists
    /\ \E i \in 1..Len(Table(csv_before)) : Table(csv_before)[i].water_class = "2"
    /\ Len(csv.lines) = Len(csv_before.lines) + Len(rasters)

\* C3 (as claimed): when a run has ended, every item of the batch other than
\* the ones whose processing failed has been processed (Stage 1: its row was
\* written; Stage 2: it was skipped with a warning or its layer was saved).
C3_BatchContinues ==
    /\ pc \in {"s1done", "s1failed"} =>
           \A i \in 1..Len(rasters) : i \in failed \/ i < idx
    /\ pc \in {"s2done", "s2failed"} =>
           \A i \in 1..Len(reader) : i \in failed \/ i \in skipped \cup processed

\* C4: in Stage 2 every record the loop has handled was skipped with a warning,
\* and wrote nothing, exactly when its water_class is blank, and was processed,
\* its feature layer saved, exactly when it is not; no record is both; a blank
\* record never makes the run fail; a run that completes has handled every
\* record of the table.
C4_SkipBlankProcessRest ==
    InStage2 =>
        /\ skipped \cap processed = {}
        /\ \A i \in 1..(idx - 1) :
               IF BlankField(reader[i].water_class)
               THEN /\ i \in skipped
                    /\ \A l \in lake_gdb : l.src # i
               ELSE /\ i \in processed
                    /\ \E l \in lake_gdb :
                           l.name = FinalOutput(reader[i].classified_raster)
        /\ skipped \cup processed = 1..(idx - 1)
        /\ warnings = [k \in 1..Cardinality(skipped) |->
                          reader[CHOOSE i \in skipped :
                                     Cardinality({j \in skipped : j <= i}) = k]
                              .classified_raster]
        /\ \A i \in failed : ~BlankField(reader[i].water_class)
        /\ pc = "s2done" => idx - 1 = Len(reader)

\* C4 witness: a completed run that skipped a record whose water_class is a
\* space and processed a record whose water_class is an integer.
C4_Witness ==
    /\ pc = "s2done"
    /\ \E i \in skipped : reader[i].water_class = " "
    /\ \E i \in processed : reader[i].water_class = "2"

\* C5 (as claimed): after a Stage 2 run that completes, the output location
\* holds as many distinct feature layers as the table has records with a
\* non-blank water_class.
C5_OneLayerPerRecord ==
    pc = "s2done" =>
        Cardinality({l.name : l \in lake_gdb}) =
            Cardinality({i \in 1..Len(reader) : ~BlankField(reader[i].water_class)})

\* C6: for a name whose first four-digit segment is its third or a later one
\* (a location of one or more segments, a sheet segment, the year),
\* extract_location_year returns the location segments joined by underscores,
\* then "_" and the year, the sheet segment left out.
C6_LocationSheetYear ==
    name_fn = "extract_location_year" =>
        LET parts == Split(name_in)
            k == FirstYearAt(parts)
        IN  k >= 3 =>
                name_out = Ret(Join(SubSeq(parts, 1, k - 2)) \o "_" \o parts[k])

\* C6 witness: the example of the specification.
C6_Witness ==
    /\ name_fn = "extract_location_year"
    /\ name_in = "Sitka_A12_1950_topo"
    /\ name_out = Ret("Sitka_1950")

\* C7: for a name with no four-digit segment extract_location_year raises
\* nothing and returns a string that ends in "_unknown".
C7_NoYearGivesUnknown ==
    name_fn = "extract_location_year" =>
        (FirstYearAt(Split(name_in)) = 0 =>
            /\ ~name_out.raised
            /\ EndsWith(name_out.value, "_unknown"))

\* C7 witness: a name without underscores, the empty name and a name with a
\* literal "unknown" segment each have an outcome (one state cannot hold all
\* three names, so the witness is the one with the literal segment).
C7_Witness ==
    /\ name_fn = "extract_location_year"
    /\ name_in = "Sitka_unknown_topo"
    /\ name_out = Ret("_unknown")

\* C8 (as claimed): raster_to_lake_name applied to "<base>_Lakes" returns
\* "<base>".
C8_StripsSuffix ==
    name_fn = "raster_to_lake_name" =>
        (EndsWith(name_in, "_Lakes") =>
            name_out = Ret(SubSeq(name_in, 1, Len(name_in) - Len("_Lakes"))))

\* C8 (amended): raster_to_lake_name applied to "<base>_Lakes" returns
\* "<base>_Lakes": the trailing segment is stripped and "_Lakes" is appended
\* again.
C8_SuffixedNameUnchanged ==
    name_fn = "raster_to_lake_name" =>
        (EndsWith(name_in, "_Lakes") => name_out = Ret(name_in))

\* C8 witness: the example of the specification.
C8_Witness ==
    /\ name_fn = "raster_to_lake_name"
    /\ name_in = "Sitka_1950_Lakes"
    /\ name_out = Ret("Sitka_1950_Lakes")

\* C9 (as claimed): for a name with a four-digit segment, the location that
\* extract_location_year returns is made up only of segments that come before
\* the segment preceding the first four-digit segment, so it is empty when
\* the year is the first or the second segment.
C9_LocationBeforeSheet ==
    name_fn = "extract_location_year" =>
        LET parts == Split(name_in)
            k == FirstYearAt(parts)
        IN  k >= 1 =>
                \E m \in 0..Max(k - 2, 0) :
                    name_out = Ret(Join(SubSeq(parts, 1, m)) \o "_" \o parts[k])

\* the entries of the remap list for the value v
EntriesFor(v) == {i \in 1..Len(remap) : remap[i][1] = v}

\* C10: the remap built from the observed values and the water class maps the
\* water class to 1 and every other observed value to 0, each observed value
\* in exactly one entry, so that every observed value maps to 0 when the water
\* class is not among them; it holds no entry for any other value.
C10_BinaryRemap ==
    remap_pc = "built" =>
        /\ EntriesFor(water_class) # {}
        /\ \A i \in EntriesFor(water_class) : remap[i][2] = 1
        /\ \A v \in ClassValues(cursor) :
               /\ Cardinality(EntriesFor(v)) = 1
               /\ \A i \in EntriesFor(v) : remap[i][2] = (IF v = water_class THEN 1 ELSE 0)
        /\ \A i \in 1..Len(remap) : remap[i][1] \in ClassValues(cursor) \cup {water_class}

\* C10 witness: a remap built for a water class that is not among two or more
\* observed values: every observed value maps to 0.
C10_Witness ==
    /\ remap_pc = "built"
    /\ water_class \notin ClassValues(cursor)
    /\ Cardinality(ClassValues(cursor)) >= 2
    /\ \A v \in ClassValues(cursor) : \E i \in 1..Len(remap) : remap[i] = <<v, 0>>

====
